---- MODULE Spec2Model ----
(***************************************************************************)
(* A model of the item CRUD API of src/main.py: the items table of         *)
(* src/models.py behind the HTTP handlers of src/main.py, the API key      *)
(* check of src/auth.py and the per-request session of src/database.py.    *)
(*                                                                         *)
(* Values.  Text values are strings; a price is written as the string of   *)
(* a finite JSON number ("1.0", "2.5"): the handlers only store, copy and  *)
(* compare prices.  Python's None / JSON null / SQL NULL is Null.  A       *)
(* request body is a function from the field names it holds to their       *)
(* values, so that an absent field and a field given as null differ, as    *)
(* they do for pydantic's exclude_unset.  Item ids and query parameters    *)
(* are integers inside the range of the database's INTEGER type.           *)
(***************************************************************************)
EXTENDS Integers, Sequences, FiniteSets, TLC

\* ------------------------------------------------------------- bounds
\* Largest id the model lets POST assign.
MaxId == 2
\* Query parameters skip and limit range over -1 .. MaxQuery.
MaxQuery == 2
\* Largest id POST assigns while requests run concurrently.
MaxConcId == 1

\* ---------------------------------------------------------- constants
Null == "<null>"
API_KEY == "dev-key-123"
DefaultSkip == 0
DefaultLimit == 10
ItemNotFound == "Item not found"
InvalidKey == "Invalid or missing API key"

\* ------------------------------------------------------------- inputs
Names == {"A", "B"}
Descriptions == {"d"}
Prices == {"1.0", "2.5"}
Fields == {"name", "description", "price"}
FieldInputs(f) ==
    CASE f = "name" -> Names \cup {Null}
      [] f = "description" -> Descriptions \cup {Null}
      [] f = "price" -> Prices \cup {Null}
\* JSON objects over the three fields, each field absent, null or a value
\* of its type.
Bodies ==
    UNION { { b \in [D -> Names \cup Descriptions \cup Prices \cup {Null}] :
                \A f \in D : b[f] \in FieldInputs(f) } : D \in SUBSET Fields }
\* The X-API-Key header: absent (Null), the configured key, another key.
KeyInputs == {Null, API_KEY, "wrong-key"}
IdInputs == 0 .. (MaxId + 1)
QueryInputs ==
    UNION { [D -> -1 .. MaxQuery] : D \in SUBSET {"skip", "limit"} }

VARIABLES
    items,   \* the rows of table "items"
    last,    \* the last request handled, its response, the rows before it
    order,   \* history: the ids of the stored rows in creation order
    fresh,   \* history: POST responses with no PATCH/DELETE of the id since
    gone,    \* history: ids deleted (204) with no item created since
    sess     \* the requests in flight, each in a database session of its own

vars == <<items, last, order, fresh, gone, sess>>

\* ------------------------------------------------------- the database
Ids(db) == { r.id : r \in db }

SetMax(S) == CHOOSE x \in S : \A y \in S : y <= x
SetMin(S) == CHOOSE x \in S : \A y \in S : x <= y

\* INTEGER PRIMARY KEY is the rowid: a row inserted without one gets the
\* largest rowid in the table plus one, 1 in an empty table.
NextRowid_count(db) == Cardinality(db) + 1
NextRowid(db) == IF db = {} THEN 1 ELSE SetMax(Ids(db)) + 1

\* db.get(Item, item_id): the set holding the row, or the empty set (None).
db_get(db, item_id) == { r \in db : r.id = item_id }

\* NOT NULL columns of the table: name and price.
NotNullOk_nullable(row) == TRUE
NotNullOk(row) == row.name # Null /\ row.price # Null

\* db.query(Item) with no ORDER BY: the table scan, in rowid order.
RECURSIVE Scan(_)
Scan(db) ==
    IF db = {} THEN <<>>
    ELSE LET r == CHOOSE x \in db : x.id = SetMin(Ids(db))
         IN <<r>> \o Scan(db \ {r})

\* OFFSET n: a negative n skips nothing.
Offset_from_one(s, n) == IF n <= 0 THEN s ELSE SubSeq(s, n, Len(s))
Offset(s, n) == IF n <= 0 THEN s ELSE SubSeq(s, n + 1, Len(s))
\* LIMIT n: a negative n is no limit.
Limit(s, n) ==
    IF n < 0 THEN s ELSE SubSeq(s, 1, IF n < Len(s) THEN n ELSE Len(s))

\* ------------------------------------------------------------ schemas
\* ItemCreate: name and price required and not null, description optional.
ItemCreateValid(body) ==
    /\ "name" \in DOMAIN body /\ body["name"] # Null
    /\ "price" \in DOMAIN body /\ body["price"] # Null
ItemCreate(body) ==
    [name |-> body["name"],
     description |-> IF "description" \in DOMAIN body
                     THEN body["description"] ELSE Null,
     price |-> body["price"]]

\* ItemUpdate: every field optional and nullable, default None; the model
\* remembers which fields the body set.
ItemUpdate(body) ==
    [name |-> IF "name" \in DOMAIN body THEN body["name"] ELSE Null,
     description |-> IF "description" \in DOMAIN body
                     THEN body["description"] ELSE Null,
     price |-> IF "price" \in DOMAIN body THEN body["price"] ELSE Null,
     fields_set |-> DOMAIN body]
\* item.model_dump(exclude_unset=True)
model_dump(item) == [f \in item.fields_set |-> item[f]]

item_to_dict(row) ==
    [id |-> row.id, name |-> row.name, description |-> row.description,
     price |-> row.price]

\* ----------------------------------------------------------- handlers
\* A handler's result: the status, the response body, the rows afterwards.
Reply(status, body, db) == [status |-> status, body |-> body, db |-> db]
Detail(text) == [detail |-> text]
NoContent == [content |-> Null]

verify_api_key_presence(x_api_key) == x_api_key # Null
verify_api_key(x_api_key) == ~(x_api_key = Null \/ x_api_key # API_KEY)

list_items(db, query) ==
    LET skip == IF "skip" \in DOMAIN query THEN query["skip"] ELSE DefaultSkip
        limit == IF "limit" \in DOMAIN query THEN query["limit"]
                 ELSE DefaultLimit
        rows == Limit(Offset(Scan(db), skip), limit)
    IN Reply(200, [list |-> [i \in 1 .. Len(rows) |-> item_to_dict(rows[i])]],
             db)

get_item(db, item_id) ==
    LET row == db_get(db, item_id)
    IN IF row = {} THEN Reply(404, Detail(ItemNotFound), db)
       ELSE Reply(200, item_to_dict(CHOOSE r \in row : TRUE), db)

\* A schema that declares price with a default instead of requiring it.
create_item_price_default(db, body) ==
    IF ~("name" \in DOMAIN body /\ body["name"] # Null)
       \/ ("price" \in DOMAIN body /\ body["price"] = Null)
    THEN Reply(422, Detail("validation"), db)
    ELSE LET row == [id |-> NextRowid(db), name |-> body["name"],
                     description |-> IF "description" \in DOMAIN body
                                     THEN body["description"] ELSE Null,
                     price |-> IF "price" \in DOMAIN body
                               THEN body["price"] ELSE "0.0",
                     category |-> Null]
         IN Reply(201, item_to_dict(row), db \cup {row})
ServerError(db) == Reply(500, Detail("Internal Server Error"), db)

\* db.refresh(row) and the return with the route's status: the row is
\* read again; a row that is no longer there raises InvalidRequestError.
refresh_return(db, item_id, status) ==
    LET row == db_get(db, item_id)
    IN IF row = {} THEN ServerError(db)
       ELSE Reply(status, item_to_dict(CHOOSE r \in row : TRUE), db)

\* Item(name=..., description=..., price=...), db.add(row), db.commit():
\* INSERT INTO items and COMMIT; the row's id is the new rowid.
flush_insert(db, item) ==
    LET row == [id |-> NextRowid(db), name |-> item.name,
                description |-> item.description, price |-> item.price,
                category |-> Null]
    IN [id |-> row.id, db |-> db \cup {row}]

create_item(db, body) ==
    IF ~ItemCreateValid(body) THEN Reply(422, Detail("validation"), db)
    ELSE LET done == flush_insert(db, ItemCreate(body))
         IN refresh_return(done.db, done.id, 201)

\* The columns the session's flush puts in its UPDATE: the attributes set
\* to a value other than the one loaded.
ChangedCols(loaded, data) == { f \in DOMAIN data : data[f] # loaded[f] }

\* A commit that does not reach the database.
flush_update_lost(db, loaded, data) == [ok |-> TRUE, db |-> db]
\* setattr(row, field, value) for every field of data, then db.commit():
\* UPDATE items SET <changed columns> WHERE id = <loaded id>, and COMMIT.
\* No changed column: no statement.  No row matched: StaleDataError.  A
\* NOT NULL column set to NULL: IntegrityError.  On an error the session
\* is rolled back when the request ends.
flush_update(db, loaded, data) ==
    LET cols == ChangedCols(loaded, data)
        stored == db_get(db, loaded.id)
    IN IF cols = {} THEN [ok |-> TRUE, db |-> db]
       ELSE IF stored = {} THEN [ok |-> FALSE, db |-> db]
       ELSE LET old == CHOOSE r \in stored : TRUE
                new == [f \in DOMAIN old |->
                           IF f \in cols THEN data[f] ELSE old[f]]
            IN IF ~NotNullOk(new) THEN [ok |-> FALSE, db |-> db]
               ELSE [ok |-> TRUE, db |-> (db \ {old}) \cup {new}]

update_item(db, item_id, body) ==
    LET found == db_get(db, item_id)
    IN IF found = {} THEN Reply(404, Detail(ItemNotFound), db)
       ELSE LET row == CHOOSE r \in found : TRUE
                done == flush_update(db, row, model_dump(ItemUpdate(body)))
            IN IF ~done.ok THEN ServerError(db)
               ELSE refresh_return(done.db, item_id, 200)

\* db.delete(row) and db.commit(): DELETE FROM items WHERE id = <row id>.
flush_delete(db, loaded) == db \ db_get(db, loaded.id)

delete_item_idempotent(db, item_id, x_api_key) ==
    IF ~verify_api_key(x_api_key) THEN Reply(401, Detail(InvalidKey), db)
    ELSE Reply(204, NoContent, db \ db_get(db, item_id))
delete_item_no_commit(db, item_id, x_api_key) ==
    IF ~verify_api_key(x_api_key) THEN Reply(401, Detail(InvalidKey), db)
    ELSE IF db_get(db, item_id) = {} THEN Reply(404, Detail(ItemNotFound), db)
    ELSE Reply(204, NoContent, db)
delete_item(db, item_id, x_api_key) ==
    IF ~verify_api_key(x_api_key) THEN Reply(401, Detail(InvalidKey), db)
    ELSE LET found == db_get(db, item_id)
         IN IF found = {} THEN Reply(404, Detail(ItemNotFound), db)
            ELSE Reply(204, NoContent,
                       flush_delete(db, CHOOSE r \in found : TRUE))

\* ------------------------------------------------------------ actions
NoBody == [f \in {} |-> Null]
Request(op, item_id, key, body, query) ==
    [op |-> op, item_id |-> item_id, key |-> key, body |-> body,
     query |-> query]
Last(req, r, before) ==
    [req |-> req, status |-> r.status, body |-> r.body, before |-> before]

RemoveId(s, id) == SelectSeq(s, LAMBDA x : x # id)
Forget(F, id) == { d \in F : d.id # id }

\* Concurrent requests: the sessions, and a session with no request.
Sessions == {"s1", "s2"}
IdleSession ==
    [pc |-> "idle", op |-> "none", item_id |-> 0, body |-> NoBody,
     loaded |-> {}, status |-> 0, resp |-> NoContent,
     stored |-> FALSE, disturbed |-> FALSE]

Idle == Last(Request("none", 0, Null, NoBody, NoBody),
             Reply(200, NoContent, {}), {})

Init ==
    /\ items = {}
    /\ last = Idle
    /\ order = <<>>
    /\ fresh = {}
    /\ gone = {}
    /\ sess = [s \in Sessions |-> IdleSession]

ListItems ==
    \E q \in QueryInputs :
        LET r == list_items(items, q)
        IN /\ last = Idle
           /\ items' = r.db
           /\ last' = Last(Request("list", 0, Null, NoBody, q), r, items)
           /\ UNCHANGED <<order, fresh, gone, sess>>

GetItem ==
    \E id \in IdInputs :
        LET r == get_item(items, id)
        IN /\ last = Idle
           /\ items' = r.db
           /\ last' = Last(Request("get", id, Null, NoBody, NoBody), r, items)
           /\ UNCHANGED <<order, fresh, gone, sess>>

CreateItem ==
    \E b \in Bodies :
        LET r == create_item(items, b)
        IN /\ last = Idle
           /\ NextRowid(items) <= MaxId
           /\ items' = r.db
           /\ last' = Last(Request("post", 0, Null, b, NoBody), r, items)
           /\ order' = IF r.status = 201 THEN Append(order, r.body.id)
                       ELSE order
           /\ fresh' = IF r.status = 201 THEN fresh \cup {r.body} ELSE fresh
           /\ gone' = IF r.status = 201 THEN {} ELSE gone
           /\ UNCHANGED sess

UpdateItem ==
    \E id \in IdInputs, b \in Bodies :
        LET r == update_item(items, id, b)
        IN /\ last = Idle
           /\ items' = r.db
           /\ last' = Last(Request("patch", id, Null, b, NoBody), r, items)
           /\ fresh' = Forget(fresh, id)
           /\ UNCHANGED <<order, gone, sess>>

DeleteItem ==
    \E id \in IdInputs, k \in KeyInputs :
        LET r == delete_item(items, id, k)
        IN /\ last = Idle
           /\ items' = r.db
           /\ last' = Last(Request("delete", id, k, NoBody, NoBody), r, items)
           /\ order' = IF r.status = 204 THEN RemoveId(order, id) ELSE order
           /\ fresh' = Forget(fresh, id)
           /\ gone' = IF r.status = 204 THEN gone \cup {id} ELSE gone
           /\ UNCHANGED sess

\* get_db's finally: the request's session is closed and the request ends.
get_db_close ==
    /\ last # Idle
    /\ last' = Idle
    /\ UNCHANGED <<items, order, fresh, gone, sess>>

Next ==
    \/ ListItems
    \/ GetItem
    \/ CreateItem
    \/ UpdateItem
    \/ DeleteItem
    \/ get_db_close

Spec == Init /\ [][Next]_vars

\* ------------------------------------------------ concurrent requests
\* Requests handled at the same time, each in the session get_db gave it.
\* A step is one round trip to the database: the read of db.get, the
\* statement and COMMIT of db.commit, the read of db.refresh (create_item
\* and update_item both commit and then refresh).  The history
\* field stored says that the stored row held every value of the body when
\* the request's commit ended; disturbed, that another request committed a
\* change to the same id between this request's read and its refresh.
PatchBodies == { b \in Bodies : DOMAIN b # {} /\ "price" \notin DOMAIN b }
PostBodies == { b \in Bodies : DOMAIN b = {"name", "price"}
                               /\ ItemCreateValid(b) /\ b["price"] = "1.0" }
InWindow(t, id) == t.pc \in {"read", "committed"} /\ t.item_id = id
\* The sessions after session s has committed a change to item id.
Disturb(ss, s, id) ==
    [t \in Sessions |->
        IF t # s /\ InWindow(ss[t], id)
        THEN [ss[t] EXCEPT !.disturbed = TRUE] ELSE ss[t]]
Finish(t, r) == [t EXCEPT !.pc = "done", !.status = r.status, !.resp = r.body,
                          !.loaded = {}]
Holds(db, id, body) ==
    \E r \in db_get(db, id) : \A f \in DOMAIN body : r[f] = body[f]

ConcCommitCreate(s) ==
    \E b \in PostBodies :
        LET t == [IdleSession EXCEPT !.op = "post", !.body = b]
            done == flush_insert(items, ItemCreate(b))
        IN /\ sess[s].pc = "idle"
           /\ NextRowid(items) <= MaxConcId
           /\ IF ~ItemCreateValid(b)
              THEN /\ sess' = [sess EXCEPT ![s] =
                         Finish(t, Reply(422, Detail("validation"), items))]
                   /\ UNCHANGED items
              ELSE /\ items' = done.db
                   /\ sess' = Disturb(
                         [sess EXCEPT ![s] =
                            [t EXCEPT !.pc = "committed", !.item_id = done.id,
                                      !.stored = Holds(done.db, done.id, b)]],
                         s, done.id)
           /\ UNCHANGED <<last, order, fresh, gone>>

ConcRead(s) ==
    \E op \in {"patch", "delete"}, id \in 1 .. MaxConcId, b \in PatchBodies :
        LET found == db_get(items, id)
            t == [IdleSession EXCEPT !.op = op, !.item_id = id,
                     !.body = IF op = "patch" THEN b ELSE NoBody]
        IN /\ sess[s].pc = "idle"
           /\ sess' = [sess EXCEPT ![s] =
                 IF found = {}
                 THEN Finish(t, Reply(404, Detail(ItemNotFound), items))
                 ELSE [t EXCEPT !.pc = "read", !.loaded = found]]
           /\ UNCHANGED <<items, last, order, fresh, gone>>

ConcCommitUpdate(s) ==
    LET t == sess[s]
        row == CHOOSE r \in t.loaded : TRUE
        data == model_dump(ItemUpdate(t.body))
        done == flush_update(items, row, data)
    IN /\ t.pc = "read" /\ t.op = "patch"
       /\ items' = done.db
       /\ sess' =
            LET mine == IF done.ok
                        THEN [t EXCEPT !.pc = "committed", !.loaded = {},
                                 !.stored = Holds(done.db, t.item_id, t.body)]
                        ELSE Finish(t, ServerError(items))
                ss == [sess EXCEPT ![s] = mine]
            IN IF done.db # items THEN Disturb(ss, s, t.item_id) ELSE ss
       /\ UNCHANGED <<last, order, fresh, gone>>

ConcRefresh(s) ==
    LET t == sess[s]
    IN /\ t.pc = "committed"
       /\ sess' = [sess EXCEPT ![s] =
                      Finish(t, refresh_return(items, t.item_id,
                                IF t.op = "post" THEN 201 ELSE 200))]
       /\ UNCHANGED <<items, last, order, fresh, gone>>

ConcCommitDelete(s) ==
    LET t == sess[s]
        after == flush_delete(items, CHOOSE r \in t.loaded : TRUE)
    IN /\ t.pc = "read" /\ t.op = "delete"
       /\ items' = after
       /\ sess' =
            LET ss == [sess EXCEPT ![s] = Finish(t, Reply(204, NoContent, after))]
            IN IF after # items THEN Disturb(ss, s, t.item_id) ELSE ss
       /\ UNCHANGED <<last, order, fresh, gone>>

\* get_db's finally for a concurrent request.
ConcClose(s) ==
    /\ sess[s].pc = "done"
    /\ sess' = [sess EXCEPT ![s] = IdleSession]
    /\ UNCHANGED <<items, last, order, fresh, gone>>

NextConc ==
    \/ \E s \in Sessions : ConcCommitCreate(s)
    \/ \E s \in Sessions : ConcRead(s)
    \/ \E s \in Sessions : ConcCommitUpdate(s)
    \/ \E s \in Sessions : ConcRefresh(s)
    \/ \E s \in Sessions : ConcCommitDelete(s)
    \/ \E s \in Sessions : ConcClose(s)

SpecConc == Init /\ [][NextConc]_vars

\* --------------------------------------------------------- properties
Req == last.req
Handled(op) == Req.op = op
Existing == Req.item_id \in Ids(last.before)
\* The row of the request's id before the request.
OldRow == CHOOSE r \in last.before : r.id = Req.item_id
\* The JSON item expected for a row.
Shown(r) ==
    [id |-> r.id, name |-> r.name, description |-> r.description,
     price |-> r.price]
Accepted == {200, 201, 204, 401, 404, 422}

TypeOK ==
    /\ \A r \in items : r.id \in 1 .. MaxId
    /\ \A r, s \in items : r.id = s.id => r = s
    /\ Ids(items) = { order[i] : i \in 1 .. Len(order) }

\* C1: a DELETE whose X-API-Key header is absent or is not the configured
\* key is answered 401 and leaves the stored items as they were, whether
\* or not the id exists.
Thm_C1 ==
    (Handled("delete") /\ (Req.key = Null \/ Req.key # "dev-key-123"))
        => (last.status = 401 /\ items = last.before)
Wit_C1 ==
    /\ Handled("delete") /\ Req.key = "wrong-key" /\ Existing
    /\ last.status = 401 /\ items = last.before

\* The request's row with the body's fields set to the body's values.
Patched ==
    [f \in DOMAIN OldRow |->
        IF f \in DOMAIN Req.body THEN Req.body[f] ELSE OldRow[f]]
\* C2: a PATCH of an existing item returns 200 with the item in which
\* exactly the body's fields have the body's values and the id and the
\* other fields are unchanged, stores that item and changes no other item.
CE_C2 ==
    (Handled("patch") /\ Existing)
        => /\ last.status = 200
           /\ last.body = Shown(Patched)
           /\ items = (last.before \ {OldRow}) \cup {Patched}

\* The stored items in creation order, and their slice at positions
\* s .. s+l-1 (from 0).
Created ==
    [i \in 1 .. Len(order) |->
        Shown(CHOOSE r \in last.before : r.id = order[i])]
DirectSlice(seq, s, l) ==
    LET idx == { i \in 1 .. Len(seq) : s <= i - 1 /\ i - 1 <= s + l - 1 }
    IN IF idx = {} THEN <<>> ELSE SubSeq(seq, SetMin(idx), SetMax(idx))
AskedSkip == IF "skip" \in DOMAIN Req.query THEN Req.query["skip"] ELSE 0
AskedLimit == IF "limit" \in DOMAIN Req.query THEN Req.query["limit"] ELSE 10
SliceReturned ==
    /\ last.status = 200
    /\ last.body.list = DirectSlice(Created, AskedSkip, AskedLimit)
    /\ items = last.before
\* C3: GET /items?skip=s&limit=l returns, for every pair of integers s
\* and l, the direct slice of the stored items in creation order, the
\* items at positions s .. s+l-1, with skip 0 and limit 10 when absent.
CE_C3 == Handled("list") => SliceReturned
\* C3 amended: for every pair of integers s >= 0 and l >= 0, GET
\* /items?skip=s&limit=l returns the direct slice of the stored items in
\* creation order, at most l items.
Thm_C3 ==
    (Handled("list") /\ AskedSkip >= 0 /\ AskedLimit >= 0)
        => (SliceReturned /\ Len(last.body.list) <= AskedLimit)
Wit_C3 ==
    /\ Handled("list") /\ AskedSkip = 1 /\ AskedLimit = 1
    /\ Cardinality(last.before) = 2
    /\ Len(last.body.list) = 1 /\ last.body.list[1].id = order[2]

\* A body with a name and a price of their types.
ValidCreate ==
    /\ "name" \in DOMAIN Req.body /\ Req.body["name"] \in Names
    /\ "price" \in DOMAIN Req.body /\ Req.body["price"] \in Prices
\* C4: a POST with a valid body returns 201 with an item whose id is at
\* least 1 and is no other stored item's id, whose name and price are the
\* body's and whose description is the body's, or null when absent; a GET
\* of that id with no PATCH or DELETE of it in between returns 200 with
\* the same item.
Thm_C4 ==
    /\ (Handled("post") /\ ValidCreate)
         => /\ last.status = 201
            /\ last.body.id >= 1
            /\ last.body.id \notin Ids(last.before)
            /\ Cardinality({ r \in items : r.id = last.body.id }) = 1
            /\ last.body.name = Req.body["name"]
            /\ last.body.price = Req.body["price"]
            /\ last.body.description =
                 IF "description" \in DOMAIN Req.body
                 THEN Req.body["description"] ELSE Null
    /\ Handled("get")
         => \A d \in fresh :
               d.id = Req.item_id => (last.status = 200 /\ last.body = d)
Wit_C4 ==
    /\ Handled("get") /\ last.status = 200
    /\ \E d \in fresh : d.id = Req.item_id /\ d.id = 2 /\ d.description = Null
    /\ Cardinality(items) = 2

\* C5: for an id that is no stored item's id, GET, PATCH and DELETE with
\* a valid API key each return 404 with detail "Item not found" and leave
\* the stored items as they were.
Thm_C5 ==
    (/\ Handled("get") \/ Handled("patch")
        \/ (Handled("delete") /\ Req.key = "dev-key-123")
     /\ ~Existing)
        => /\ last.status = 404
           /\ last.body = [detail |-> "Item not found"]
           /\ items = last.before
Wit_C5 ==
    /\ Handled("delete") /\ Req.key = "dev-key-123" /\ ~Existing
    /\ last.before # {} /\ last.status = 404

\* C6: a POST whose body lacks name or lacks price is answered 422 and
\* creates no item.
Thm_C6 ==
    (Handled("post")
     /\ ("name" \notin DOMAIN Req.body \/ "price" \notin DOMAIN Req.body))
        => (last.status = 422 /\ items = last.before)
Wit_C6 ==
    /\ Handled("post") /\ DOMAIN Req.body = {"name"}
    /\ last.status = 422 /\ items = last.before

\* C7: every request ends with one of the status codes 200, 201, 204,
\* 401, 404, 422, also a PATCH whose body gives name or price as null.
CE_C7 == last.status \in Accepted

\* C8: every stored item has a name and a price that are not null.
Thm_C8 == \A r \in items : r.name # Null /\ r.price # Null
Wit_C8 ==
    /\ Handled("patch") /\ Existing
    /\ "name" \in DOMAIN Req.body /\ Req.body["name"] = Null
    /\ \E r \in items : r.id = Req.item_id /\ r.description = Null

\* C9: a DELETE with a valid API key of an existing item returns 204 and
\* removes exactly that item; until a later POST creates an item, every
\* GET of the deleted id returns 404 and GET /items does not list it.
Thm_C9 ==
    /\ (Handled("delete") /\ Req.key = "dev-key-123" /\ Existing)
         => /\ last.status = 204
            /\ items = last.before \ {OldRow}
            /\ Cardinality(items) = Cardinality(last.before) - 1
    /\ (Handled("get") /\ Req.item_id \in gone) => last.status = 404
    /\ Handled("list")
         => \A i \in 1 .. Len(last.body.list) : last.body.list[i].id \notin gone
Wit_C9 ==
    /\ Handled("get") /\ Req.item_id \in gone /\ last.status = 404
    /\ items # {}

\* A PATCH answered 200; its body's values returned and stored.
Answered(t) == t.pc = "done" /\ t.op = "patch" /\ t.status = 200
BodyReturned(t) ==
    /\ \A f \in DOMAIN t.body : t.resp[f] = t.body[f]
    /\ t.stored
\* C10: under every interleaving of concurrent requests, a PATCH answered
\* 200 returns an item in which every field of its body has the body's
\* value, and the stored item held that value when its commit ended.
CE_C10 == \A s \in Sessions : Answered(sess[s]) => BodyReturned(sess[s])
\* C10 amended: a PATCH answered 200 returns and stored its body's
\* values when no other request committed a change to the same item
\* between the request's read of the row and its refresh.
Thm_C10 ==
    \A s \in Sessions :
        (Answered(sess[s]) /\ ~sess[s].disturbed) => BodyReturned(sess[s])
Wit_C10 ==
    /\ Answered(sess["s1"]) /\ ~sess["s1"].disturbed
    /\ "name" \in DOMAIN sess["s1"].body
    /\ sess["s2"].pc = "read" /\ sess["s2"].op = "patch"
    /\ sess["s2"].item_id = sess["s1"].item_id
    /\ "name" \in DOMAIN sess["s2"].body
    /\ sess["s2"].body["name"] # sess["s1"].body["name"]
====
